---- MODULE Spec2Model ----
(***************************************************************************)
(* ISP helpdesk backend: the ticket lifecycle and assignment handlers      *)
(* (createTicket, updateTicket, assignTicket), the comment and attachment  *)
(* handlers and the statistics query, modelled as operations against the   *)
(* relational store and the disk the attachments' files are kept on.       *)
(*                                                                         *)
(* A nullable column holds NULL (the empty tuple) or a one-element tuple   *)
(* <<v>>.  An input object is a function whose DOMAIN is exactly the set   *)
(* of keys the caller supplied: `input.f !== undefined` in the handlers is *)
(* `"f" \in DOMAIN input` here, and a supplied null is the value NULL.     *)
(* Timestamps are ticks of a logical clock; every call takes one tick.     *)
(* Calls are handled one at a time: a call runs to its end, its outcome is *)
(* held in `call`, and Return hands it to the caller before the next call  *)
(* starts.  deleteAttachment writes to two places, the table and the disk, *)
(* and is taken in the steps of its code: the lookup, the row's deletion,  *)
(* the file's removal.                                                     *)
(*                                                                         *)
(* The specifications share the handlers: Spec runs the ticket calls from  *)
(* an empty store, DiscussionSpec the comment and attachment calls on a    *)
(* store that holds two tickets, DeskSpec all the writing calls, StatsSpec *)
(* and ListSpec the statistics query and the ticket listing on the ticket  *)
(* tables the ticket calls can produce, AccountSpec the user calls.        *)
(* RaceSpec and DeleteRaceSpec run two requests at once, each handler in   *)
(* the steps of its code: every statement against the store is one step.   *)
(***************************************************************************)
EXTENDS Integers, Sequences, FiniteSets, TLC

VARIABLES
    users,        \* usersTable: id -> row (only the columns the handlers read)
    tickets,      \* ticketsTable: sequence of rows, the serial id is the index
    comments,     \* commentsTable: sequence of rows, the serial id is the index
    now,          \* the clock: the value of the latest `new Date()` / defaultNow()
    call,         \* the call being answered: operation, input, outcome, returned
                  \* row; Idle between calls
    everResolved, \* history: ids of tickets a successful updateTicket supplied
                  \* status = 'resolved' for
    attachments,  \* attachmentsTable: sequence indexed by the serial id; the
                  \* entry is <<row>>, or << >> once the row is deleted
    files,        \* the disk: the paths at which a file exists
    pc,           \* deleteAttachment's position: "idle", "delete", "unlink"
    attachment,   \* deleteAttachment's local `attachment`: the row it selected
    unlinked,     \* history: ids of the attachments whose file a
                  \* deleteAttachment has removed
    toggled,      \* history: ids of the comments whose is_internal an
                  \* updateComment has changed
    procs         \* the requests handled at once: for each, the handler it
                  \* runs, its position, its input, its locals, its outcome

vars == <<users, tickets, comments, now, call, everResolved,
          attachments, files, pc, attachment, unlinked, toggled, procs>>

\* What the ticket handlers and createComment never touch when they are
\* called one at a time.
discussionVars == <<attachments, files, pc, attachment, unlinked, toggled, procs>>

\* ------------------------------------------------------------------ bounds
MaxTime == 3        \* calls in one behaviour (each takes one tick of the clock)
MaxSupplied == 1    \* fields one updateTicket input supplies besides the id
MaxStatTickets == 2 \* tickets in a table the statistics are taken over
MaxListed == 11     \* tickets in a table getTickets lists
MaxMoved == 1       \* tickets whose rows an update moved behind the others

\* ------------------------------------------------------------- the schema
NULL == << >>
Some(v) == <<v>>

userRoleEnum == {"customer", "agent", "admin"}
ticketStatusEnum == {"open", "in_progress", "on_hold", "resolved", "closed"}

\* The users the store holds: a customer, two agents and an admin.
\* MissingUser is an id no row has.
SeedUsers == (1 :> [id |-> 1, role |-> "customer"])
          @@ (2 :> [id |-> 2, role |-> "agent"])
          @@ (3 :> [id |-> 3, role |-> "admin"])
          @@ (4 :> [id |-> 4, role |-> "agent"])
MissingUser == Cardinality(DOMAIN SeedUsers) + 1
UserIds == DOMAIN SeedUsers \cup {MissingUser}

\* Input values the calls are made with.
RfoDetails == {[outage_type |-> "planned"]}
Contents == {"c1"}

\* Ticket ids a call may name: the tickets that exist and one that does not.
TicketIds == 1 .. (MaxTime + 1)
KnownOrNext(id) == id <= Len(tickets) + 1

\* The requests, and a request that runs no handler.
Procs == {1, 2}
IdleProc ==
    [op |-> "none", pc |-> "idle", input |-> << >>, local |-> << >>,
     result |-> "none", ret |-> << >>]
IdleProcs == [p \in Procs |-> IdleProc]

Idle == [op |-> "none", input |-> << >>, result |-> "none", ret |-> NULL]

\* ------------------------------------------------------------ the queries
\* db.select().from(usersTable).where(eq(usersTable.id, id))
SelectUser(id) == IF id \in DOMAIN users THEN <<users[id]>> ELSE << >>

\* Variant: the role condition of the agent lookup is dropped.
SelectAgent_AnyRole(id) == IF id \in DOMAIN users THEN <<users[id]>> ELSE << >>

\* db.select().from(usersTable).where(and(eq(id, id), eq(role, 'agent')))
SelectAgent(id) ==
    IF id \in DOMAIN users /\ users[id].role = "agent" THEN <<users[id]>> ELSE << >>

\* db.select().from(ticketsTable).where(eq(ticketsTable.id, id))
SelectTicket(id) == IF id \in DOMAIN tickets THEN <<tickets[id]>> ELSE << >>

\* Variant: a supplied null is taken for an omitted column.
SetColumns_NullOmitted(row, values) ==
    [c \in DOMAIN row |->
        IF c \in DOMAIN values
           /\ ~(c \in {"assigned_agent_id", "rfo_details"} /\ values[c] = << >>)
        THEN values[c] ELSE row[c]]

\* db.update(ticketsTable).set(values).where(eq(ticketsTable.id, id)):
\* the columns named in `values` are overwritten, the others kept.
SetColumns(row, values) ==
    [c \in DOMAIN row |-> IF c \in DOMAIN values THEN values[c] ELSE row[c]]

\* Variant: the where clause is dropped, every ticket is updated.
UpdateTicketRow_EveryRow(id, values) ==
    [i \in DOMAIN tickets |-> SetColumns(tickets[i], values)]

UpdateTicketRow(id, values) ==
    [tickets EXCEPT ![id] = SetColumns(tickets[id], values)]

\* ----------------------------------------------------------- createTicket
\* The text, category and priority a ticket is created with.
TicketContents ==
    { [subject |-> "s1", description |-> "d1",
       category |-> "technical_support", priority |-> "medium"],
      [subject |-> "s2", description |-> "d2",
       category |-> "rfo", priority |-> "urgent"] }

CreateTicketInputs ==
    LET base == { c @@ [customer_id |-> u] : c \in TicketContents, u \in UserIds }
    IN  base \cup { b @@ [rfo_details |-> r] : b \in base,
                                               r \in {NULL} \cup {Some(d) : d \in RfoDetails} }

\* Variant: the role of the customer is not looked at.
createTicketCheck_NoRoleCheck(input) ==
    IF input.customer_id \notin DOMAIN users THEN "Customer not found" ELSE "ok"

\* The checks before the insert: "ok", or the error thrown.
createTicketCheck(input) ==
    LET customer == SelectUser(input.customer_id) IN
    IF Len(customer) = 0 THEN "Customer not found"
    ELSE IF customer[1].role # "customer" THEN "User is not a customer"
    ELSE "ok"

\* Variant: the new row takes the insertion time as its resolution time.
createTicketRow_ResolvedNow(input, id, time) ==
    [id |-> id, subject |-> input.subject, description |-> input.description,
     category |-> input.category, priority |-> input.priority, status |-> "open",
     customer_id |-> input.customer_id, assigned_agent_id |-> << >>,
     rfo_details |-> IF "rfo_details" \in DOMAIN input /\ input.rfo_details # << >>
                     THEN input.rfo_details ELSE << >>,
     created_at |-> time, updated_at |-> time, resolved_at |-> <<time>>]

\* Variant: the new row's customer is the ticket's own id.
createTicketRow_CustomerIsId(input, id, time) ==
    [id |-> id, subject |-> input.subject, description |-> input.description,
     category |-> input.category, priority |-> input.priority, status |-> "open",
     customer_id |-> id, assigned_agent_id |-> << >>,
     rfo_details |-> IF "rfo_details" \in DOMAIN input /\ input.rfo_details # << >>
                     THEN input.rfo_details ELSE << >>,
     created_at |-> time, updated_at |-> time, resolved_at |-> << >>]

\* The row db.insert(ticketsTable).values({...}).returning() produces.
createTicketRow(input, id, time) ==
    [id |-> id,
     subject |-> input.subject,
     description |-> input.description,
     category |-> input.category,
     priority |-> input.priority,
     status |-> "open",
     customer_id |-> input.customer_id,
     assigned_agent_id |-> NULL,
     rfo_details |-> IF "rfo_details" \in DOMAIN input /\ input.rfo_details # NULL
                     THEN input.rfo_details ELSE NULL,
     created_at |-> time,
     updated_at |-> time,
     resolved_at |-> NULL]

createTicket(input) ==
    /\ now' = now + 1
    /\ LET err == createTicketCheck(input)
           row == createTicketRow(input, Len(tickets) + 1, now')
       IN  IF err # "ok"
           THEN /\ UNCHANGED tickets
                /\ call' = [op |-> "createTicket", input |-> input,
                            result |-> err, ret |-> NULL]
           ELSE /\ tickets' = Append(tickets, row)
                /\ call' = [op |-> "createTicket", input |-> input,
                            result |-> "ok", ret |-> Some(row)]
    /\ UNCHANGED <<users, comments, everResolved, discussionVars>>

\* ----------------------------------------------------------- updateTicket
UpdateFieldValues ==
    [subject |-> {"s2"},
     description |-> {"d2"},
     category |-> {"technical_support", "rfo"},
     priority |-> {"urgent"},
     status |-> ticketStatusEnum,
     assigned_agent_id |-> {NULL} \cup {Some(u) : u \in UserIds},
     rfo_details |-> {NULL} \cup {Some(d) : d \in RfoDetails}]

UpdateFields == DOMAIN UpdateFieldValues

RECURSIVE ObjectsOver(_)
\* Every object whose keys are exactly F, each key with one of its values.
ObjectsOver(F) ==
    IF F = {} THEN { << >> }
    ELSE LET k == CHOOSE x \in F : TRUE
         IN  { (k :> v) @@ o : v \in UpdateFieldValues[k], o \in ObjectsOver(F \ {k}) }

UpdateTicketInputs ==
    UNION { { (("id" :> id) @@ o) : o \in ObjectsOver(F) } :
            id \in TicketIds,
            F \in { G \in SUBSET UpdateFields : Cardinality(G) <= MaxSupplied } }

Has(input, f) == f \in DOMAIN input

\* Variant: the assigned agent is not validated.
updateTicketCheck_AgentUnchecked(input) ==
    IF input.id \notin DOMAIN tickets THEN "Ticket not found" ELSE "ok"

\* Variant: the agent is validated before the ticket is looked up.
updateTicketCheck_AgentFirst(input) ==
    IF /\ "assigned_agent_id" \in DOMAIN input
       /\ input.assigned_agent_id # << >>
       /\ ~(/\ input.assigned_agent_id[1] \in DOMAIN users
            /\ users[input.assigned_agent_id[1]].role = "agent")
    THEN "User is not an agent or does not exist"
    ELSE IF input.id \notin DOMAIN tickets THEN "Ticket not found"
    ELSE "ok"

\* The checks before the update: "ok", or the error thrown.
updateTicketCheck(input) ==
    IF Len(SelectTicket(input.id)) = 0 THEN "Ticket not found"
    ELSE IF /\ Has(input, "assigned_agent_id")
            /\ input.assigned_agent_id # NULL
            /\ Len(SelectAgent(input.assigned_agent_id[1])) = 0
         THEN "User is not an agent or does not exist"
    ELSE "ok"

\* Variant: resolved_at is set whenever a status is supplied.
updateValues_AnyStatusResolves(input, time) ==
    [f \in (DOMAIN input) \ {"id"} |-> input[f]]
    @@ (IF "status" \in DOMAIN input THEN [resolved_at |-> <<time>>] ELSE << >>)
    @@ [updated_at |-> time]

\* Variant: resolved_at is cleared when the status moves to another value.
updateValues_ClearsResolved(input, time) ==
    [f \in (DOMAIN input) \ {"id"} |-> input[f]]
    @@ (IF "status" \in DOMAIN input
        THEN [resolved_at |-> IF input.status = "resolved" THEN <<time>> ELSE << >>]
        ELSE << >>)
    @@ [updated_at |-> time]

\* Variant: the outage details are dropped when the category moves away
\* from rfo.
updateValues_DropsDetails(input, time) ==
    [f \in (DOMAIN input) \ {"id"} |-> input[f]]
    @@ (IF "status" \in DOMAIN input /\ input.status = "resolved"
        THEN [resolved_at |-> <<time>>] ELSE << >>)
    @@ (IF "category" \in DOMAIN input /\ input.category # "rfo"
        THEN [rfo_details |-> << >>] ELSE << >>)
    @@ [updated_at |-> time]

\* Variant: the resolution time is not set.
updateValues_NoResolvedAt(input, time) ==
    [f \in (DOMAIN input) \ {"id"} |-> input[f]] @@ [updated_at |-> time]

\* Variant: a ticket that has a resolution time keeps it when it is
\* resolved again.
updateValues_KeepsFirst(input, time) ==
    [f \in (DOMAIN input) \ {"id"} |-> input[f]]
    @@ (IF "status" \in DOMAIN input /\ input.status = "resolved"
           /\ tickets[input.id].resolved_at = << >>
        THEN [resolved_at |-> <<time>>] ELSE << >>)
    @@ [updated_at |-> time]

\* The updateValues object handed to .set().
updateValues(input, time) ==
    LET supplied == (DOMAIN input) \cap UpdateFields
        fields == [f \in supplied |-> input[f]]
    IN  fields
        @@ (IF Has(input, "status") /\ input.status = "resolved"
            THEN [resolved_at |-> Some(time)] ELSE << >>)
        @@ [updated_at |-> time]

updateTicket(input) ==
    /\ now' = now + 1
    /\ LET err == updateTicketCheck(input) IN
       IF err # "ok"
       THEN /\ UNCHANGED <<tickets, everResolved>>
            /\ call' = [op |-> "updateTicket", input |-> input,
                        result |-> err, ret |-> NULL]
       ELSE /\ tickets' = UpdateTicketRow(input.id, updateValues(input, now'))
            /\ everResolved' =
                   IF Has(input, "status") /\ input.status = "resolved"
                   THEN everResolved \cup {input.id} ELSE everResolved
            /\ call' = [op |-> "updateTicket", input |-> input,
                        result |-> "ok", ret |-> Some(tickets'[input.id])]
    /\ UNCHANGED <<users, comments, discussionVars>>

\* ----------------------------------------------------------- assignTicket
AssignTicketInputs == [ticketId : TicketIds, agentId : UserIds]

\* Variant: the ticket is looked up before the agent.
assignTicketCheck_TicketFirst(input) ==
    IF input.ticketId \notin DOMAIN tickets THEN "Ticket not found"
    ELSE IF ~(input.agentId \in DOMAIN users /\ users[input.agentId].role = "agent")
         THEN "Agent not found or is not an agent"
    ELSE "ok"

\* The checks before the update: "ok", or the error thrown.  The agent is
\* looked up before the ticket.
assignTicketCheck(input) ==
    IF Len(SelectAgent(input.agentId)) = 0 THEN "Agent not found or is not an agent"
    ELSE IF Len(SelectTicket(input.ticketId)) = 0 THEN "Ticket not found"
    ELSE "ok"

\* Variant: an assignment always starts the work.
newStatus_AlwaysInProgress(currentTicket) == "in_progress"

newStatus(currentTicket) ==
    IF currentTicket.status = "open" THEN "in_progress" ELSE currentTicket.status

\* Variant: an assignment reopens the ticket's resolution.
assignValues_ClearsResolved(input, currentTicket, time) ==
    [assigned_agent_id |-> <<input.agentId>>,
     status |-> IF currentTicket.status = "open" THEN "in_progress"
                ELSE currentTicket.status,
     updated_at |-> time,
     resolved_at |-> << >>]

assignValues(input, currentTicket, time) ==
    [assigned_agent_id |-> Some(input.agentId),
     status |-> newStatus(currentTicket),
     updated_at |-> time]

assignTicket(input) ==
    /\ now' = now + 1
    /\ LET err == assignTicketCheck(input) IN
       IF err # "ok"
       THEN /\ UNCHANGED tickets
            /\ call' = [op |-> "assignTicket", input |-> input,
                        result |-> err, ret |-> NULL]
       ELSE /\ tickets' = UpdateTicketRow(input.ticketId,
                              assignValues(input, SelectTicket(input.ticketId)[1], now'))
            /\ call' = [op |-> "assignTicket", input |-> input,
                        result |-> "ok", ret |-> Some(tickets'[input.ticketId])]
    /\ UNCHANGED <<users, comments, everResolved, discussionVars>>

\* ---------------------------------------------------------- createComment
CreateCommentInputs ==
    [ticket_id : TicketIds, user_id : UserIds, content : Contents, is_internal : BOOLEAN]

\* Variant: the author is not looked up.
createCommentCheck_UserUnchecked(input) ==
    IF input.ticket_id \notin DOMAIN tickets THEN "Ticket not found" ELSE "ok"

createCommentCheck(input) ==
    IF Len(SelectTicket(input.ticket_id)) = 0 THEN "Ticket not found"
    ELSE IF Len(SelectUser(input.user_id)) = 0 THEN "User not found"
    ELSE "ok"

\* Variant: every comment is stored as a public one.
createCommentRow_Public(input, id, time) ==
    [id |-> id, ticket_id |-> input.ticket_id, user_id |-> input.user_id,
     content |-> input.content, is_internal |-> FALSE, created_at |-> time]

createCommentRow(input, id, time) ==
    [id |-> id,
     ticket_id |-> input.ticket_id,
     user_id |-> input.user_id,
     content |-> input.content,
     is_internal |-> input.is_internal,
     created_at |-> time]

createComment(input) ==
    /\ now' = now + 1
    /\ LET err == createCommentCheck(input)
           row == createCommentRow(input, Len(comments) + 1, now')
       IN  IF err # "ok"
           THEN /\ UNCHANGED <<tickets, comments>>
                /\ call' = [op |-> "createComment", input |-> input,
                            result |-> err, ret |-> NULL]
           ELSE /\ comments' = Append(comments, row)
                /\ tickets' = UpdateTicketRow(input.ticket_id, [updated_at |-> now'])
                /\ call' = [op |-> "createComment", input |-> input,
                            result |-> "ok", ret |-> Some(row)]
    /\ UNCHANGED <<users, everResolved, discussionVars>>

\* ---------------------------------------------------------- updateComment
CommentIds == 1 .. (MaxTime + 1)
KnownOrNextComment(id) == id <= Len(comments) + 1

\* The id, and any of content and is_internal.
UpdateCommentInputs ==
    LET ids == { ("id" :> id) : id \in CommentIds } IN
    ids
    \cup { i @@ ("content" :> "c2") : i \in ids }
    \cup { i @@ ("is_internal" :> b) : i \in ids, b \in BOOLEAN }
    \cup { i @@ ("content" :> "c2") @@ ("is_internal" :> b) : i \in ids, b \in BOOLEAN }

\* db.select().from(commentsTable).where(eq(commentsTable.id, id))
SelectComment(id) == IF id \in DOMAIN comments THEN <<comments[id]>> ELSE << >>

\* Variant: an omitted is_internal takes the default of the column.
updateData_InternalDefaults(input) ==
    [f \in (DOMAIN input) \cap {"content"} |-> input[f]]
    @@ [is_internal |-> IF "is_internal" \in DOMAIN input THEN input.is_internal
                        ELSE FALSE]

\* The updateData object: the fields the input supplies.
updateData(input) ==
    [f \in { g \in {"content", "is_internal"} : Has(input, g) } |-> input[f]]

updateComment(input) ==
    /\ now' = now + 1
    /\ LET existingComment == SelectComment(input.id) IN
       IF Len(existingComment) = 0
       THEN /\ UNCHANGED <<comments, toggled>>
            /\ call' = [op |-> "updateComment", input |-> input,
                        result |-> "Comment not found", ret |-> NULL]
       ELSE IF DOMAIN updateData(input) = {}
       THEN /\ UNCHANGED <<comments, toggled>>
            /\ call' = [op |-> "updateComment", input |-> input,
                        result |-> "ok", ret |-> Some(existingComment[1])]
       ELSE /\ comments' = [comments EXCEPT
                               ![input.id] = SetColumns(comments[input.id], updateData(input))]
            /\ toggled' = IF comments'[input.id].is_internal # comments[input.id].is_internal
                          THEN toggled \cup {input.id} ELSE toggled
            /\ call' = [op |-> "updateComment", input |-> input,
                        result |-> "ok", ret |-> Some(comments'[input.id])]
    /\ UNCHANGED <<procs, users, tickets, everResolved, attachments, files, pc, attachment,
                   unlinked>>

\* ------------------------------------------------------ getTicketComments
GetTicketCommentsInputs == [ticketId : TicketIds, includeInternal : BOOLEAN]

RECURSIVE OrderByCreatedAt(_)
\* .orderBy(asc(created_at)): the rows of S, earliest first.
OrderByCreatedAt(S) ==
    IF S = {} THEN << >>
    ELSE LET first == CHOOSE r \in S : \A q \in S : r.created_at <= q.created_at
         IN  <<first>> \o OrderByCreatedAt(S \ {first})

\* Variant: internal comments are not filtered out.
getTicketComments_AllVisible(ticketId, includeInternal) ==
    OrderByCreatedAt({ comments[i] : i \in { j \in DOMAIN comments :
                                               comments[j].ticket_id = ticketId } })

\* The comments of the ticket, joined to their users, without the internal
\* ones unless includeInternal, ordered by creation time.
getTicketComments(ticketId, includeInternal) ==
    LET conditions(c) == /\ c.ticket_id = ticketId
                         /\ includeInternal \/ c.is_internal = FALSE
        joined == { i \in DOMAIN comments : comments[i].user_id \in DOMAIN users }
    IN  OrderByCreatedAt({ comments[i] : i \in { j \in joined : conditions(comments[j]) } })

GetTicketComments(input) ==
    /\ now' = now + 1
    /\ call' = [op |-> "getTicketComments", input |-> input, result |-> "ok",
                ret |-> Some(getTicketComments(input.ticketId, input.includeInternal))]
    /\ UNCHANGED <<users, tickets, comments, everResolved, discussionVars>>

\* ------------------------------------------------------- createAttachment
\* A path is the sequence of its characters.  The paths the calls use: a
\* file name, the empty path and a path of one blank.
FilePaths == { <<"f">>, << >>, <<" ">> }

CreateAttachmentInputs ==
    [ticket_id : TicketIds, filename : {"a.txt"}, file_path : FilePaths,
     file_size : {1}, mime_type : {"text/plain"}, uploaded_by : UserIds]

\* Variant: the uploader is not looked up.
createAttachmentCheck_UserUnchecked(input) ==
    IF input.ticket_id \notin DOMAIN tickets THEN "Ticket not found" ELSE "ok"

createAttachmentCheck(input) ==
    IF Len(SelectTicket(input.ticket_id)) = 0 THEN "Ticket not found"
    ELSE IF Len(SelectUser(input.uploaded_by)) = 0 THEN "User not found"
    ELSE "ok"

createAttachmentRow(input, id, time) ==
    [id |-> id,
     ticket_id |-> input.ticket_id,
     filename |-> input.filename,
     file_path |-> input.file_path,
     file_size |-> input.file_size,
     mime_type |-> input.mime_type,
     uploaded_by |-> input.uploaded_by,
     created_at |-> time]

createAttachment(input) ==
    /\ now' = now + 1
    /\ LET err == createAttachmentCheck(input)
           row == createAttachmentRow(input, Len(attachments) + 1, now')
       IN  IF err # "ok"
           THEN /\ UNCHANGED attachments
                /\ call' = [op |-> "createAttachment", input |-> input,
                            result |-> err, ret |-> NULL]
           ELSE /\ attachments' = Append(attachments, Some(row))
                /\ call' = [op |-> "createAttachment", input |-> input,
                            result |-> "ok", ret |-> Some(row)]
    /\ UNCHANGED <<procs, users, tickets, comments, everResolved, files, pc, attachment,
                   unlinked, toggled>>

\* --------------------------------------------------- getTicketAttachments
GetTicketAttachmentsInputs == [ticketId : TicketIds]

\* Variant: the rows come back in the opposite order.
attachmentsOfTicket_Reversed(ticketId) ==
    LET ordered == OrderByCreatedAt({ attachments[i][1] :
                       i \in { j \in DOMAIN attachments :
                                 /\ attachments[j] # << >>
                                 /\ attachments[j][1].ticket_id = ticketId } })
    IN  [k \in DOMAIN ordered |-> ordered[Len(ordered) + 1 - k]]

\* The attachments of the ticket, joined to their uploaders, ordered by
\* creation time.
attachmentsOfTicket(ticketId) ==
    LET stored == { j \in DOMAIN attachments : attachments[j] # << >> }
        joined == { j \in stored : attachments[j][1].uploaded_by \in DOMAIN users }
    IN  OrderByCreatedAt({ attachments[i][1] :
            i \in { j \in joined : attachments[j][1].ticket_id = ticketId } })

\* The ticket is looked up first; a missing ticket is an error.
getTicketAttachments(input) ==
    /\ now' = now + 1
    /\ IF Len(SelectTicket(input.ticketId)) = 0
       THEN call' = [op |-> "getTicketAttachments", input |-> input,
                     result |-> "Ticket not found", ret |-> NULL]
       ELSE call' = [op |-> "getTicketAttachments", input |-> input,
                     result |-> "ok", ret |-> Some(attachmentsOfTicket(input.ticketId))]
    /\ UNCHANGED <<users, tickets, comments, everResolved, discussionVars>>

\* ------------------------------------------------------- deleteAttachment
AttachmentIds == 1 .. (MaxTime + 1)
KnownOrNextAttachment(id) == id <= Len(attachments) + 1

\* Variant: the lookup finds no row.
SelectAttachment_Nothing(id) == << >>

\* db.select().from(attachmentsTable).where(eq(attachmentsTable.id, id))
SelectAttachment(id) == IF id \in DOMAIN attachments THEN attachments[id] ELSE << >>

\* Variant: the deletion leaves the row in the table.
DeleteAttachmentRow_Keeps(id) == attachments

\* db.delete(attachmentsTable).where(eq(attachmentsTable.id, id))
DeleteAttachmentRow(id) ==
    IF id \in DOMAIN attachments THEN [attachments EXCEPT ![id] = << >>] ELSE attachments

RECURSIVE trimStart(_)
trimStart(s) == IF s # << >> /\ Head(s) = " " THEN trimStart(Tail(s)) ELSE s

RECURSIVE trimEnd(_)
trimEnd(s) ==
    IF s # << >> /\ s[Len(s)] = " " THEN trimEnd(SubSeq(s, 1, Len(s) - 1)) ELSE s

\* String.prototype.trim
trim(s) == trimEnd(trimStart(s))

\* path.resolve of a relative path: the path under the working directory.
resolve(file_path) == <<"/">> \o file_path

\* attachment.file_path && attachment.file_path.trim() !== ''
hasFilePath(row) == row.file_path # << >> /\ trim(row.file_path) # << >>

\* The files the attachments' rows can point to.
StoredFiles == { resolve(p) : p \in { q \in FilePaths : trim(q) # << >> } }

DeleteAttachmentInputs == [attachmentId : AttachmentIds]

\* The lookup: no row, and the call returns false; a row, and it goes on.
deleteAttachmentSelect(input) ==
    /\ now' = now + 1
    /\ LET found == SelectAttachment(input.attachmentId) IN
       IF Len(found) = 0
       THEN /\ call' = [op |-> "deleteAttachment", input |-> input,
                        result |-> "ok", ret |-> Some(FALSE)]
            /\ UNCHANGED <<pc, attachment>>
       ELSE /\ call' = [op |-> "deleteAttachment", input |-> input,
                        result |-> "pending", ret |-> NULL]
            /\ attachment' = Some(found[1])
            /\ pc' = "delete"
    /\ UNCHANGED <<procs, users, tickets, comments, everResolved, attachments, files,
                   unlinked, toggled>>

\* The row's deletion: nothing deleted, and the call returns false.
deleteAttachmentDelete ==
    /\ pc = "delete"
    /\ LET id == call.input.attachmentId
           deleteResult == SelectAttachment(id)
       IN  /\ attachments' = DeleteAttachmentRow(id)
           /\ IF Len(deleteResult) = 0
              THEN /\ call' = [call EXCEPT !.result = "ok", !.ret = Some(FALSE)]
                   /\ pc' = "idle"
                   /\ attachment' = NULL
              ELSE /\ pc' = "unlink"
                   /\ UNCHANGED <<call, attachment>>
    /\ UNCHANGED <<procs, users, tickets, comments, now, everResolved, files, unlinked, toggled>>

\* The file's removal, whose failure is caught and logged: the call returns
\* true whatever happened to the file.
deleteAttachmentUnlink ==
    /\ pc = "unlink"
    /\ LET row == attachment[1]
           filePath == resolve(row.file_path)
       IN  \/ /\ hasFilePath(row)
              /\ filePath \in files
              /\ files' = files \ {filePath}
              /\ unlinked' = unlinked \cup {row.id}
           \/ /\ hasFilePath(row)
              /\ UNCHANGED <<files, unlinked>>
           \/ /\ ~hasFilePath(row)
              /\ UNCHANGED <<files, unlinked>>
    /\ call' = [call EXCEPT !.result = "ok", !.ret = Some(TRUE)]
    /\ pc' = "idle"
    /\ attachment' = NULL
    /\ UNCHANGED <<procs, users, tickets, comments, now, everResolved, attachments, toggled>>

\* -------------------------------------------------------------- getTickets
FilterFields == {"customer_id", "assigned_agent_id", "status", "category", "priority"}

\* The values a query names: for each filter a value some ticket has and one
\* that fewer have; limits and offsets below, at and above the table's size.
QueryFieldValues ==
    [customer_id |-> {1, MissingUser},
     assigned_agent_id |-> {2, 4},
     status |-> {"open", "resolved"},
     category |-> {"technical_support", "rfo"},
     priority |-> {"medium", "urgent"},
     limit |-> {1, 2, MaxListed},
     offset |-> {0, 1, MaxListed - 1}]

RECURSIVE QueriesOver(_)
\* Every query whose keys are exactly F, each key with one of its values.
QueriesOver(F) ==
    IF F = {} THEN { << >> }
    ELSE LET k == CHOOSE x \in F : TRUE
         IN  { (k :> v) @@ o : v \in QueryFieldValues[k], o \in QueriesOver(F \ {k}) }

\* A query supplies some of the filters and any of limit and offset; the
\* query without keys stands for the omitted query as well.
GetTicketsInputs ==
    UNION { QueriesOver(F \cup P) :
            F \in { G \in SUBSET FilterFields : Cardinality(G) <= MaxSupplied },
            P \in SUBSET {"limit", "offset"} }

\* and(...conditions) on one row; eq() on the nullable agent column is
\* true only of a row that has that agent.
whereClause(query, row) ==
    /\ Has(query, "customer_id") => row.customer_id = query.customer_id
    /\ Has(query, "assigned_agent_id")
           => row.assigned_agent_id = Some(query.assigned_agent_id)
    /\ Has(query, "status") => row.status = query.status
    /\ Has(query, "category") => row.category = query.category
    /\ Has(query, "priority") => row.priority = query.priority

\* Variant: without a limit in the query, every row is returned.
limit_Unlimited(query) ==
    IF "limit" \in DOMAIN query THEN query.limit ELSE Len(tickets)

\* query?.limit || 10
limit(query) == IF Has(query, "limit") /\ query.limit # 0 THEN query.limit ELSE 10

\* query?.offset || 0
offset(query) == IF Has(query, "offset") /\ query.offset # 0 THEN query.offset ELSE 0

\* The select has no ORDER BY: the rows come in the order the store holds
\* them, which is the order of insertion except that the rows of the first
\* `moved` tickets lie behind the others.
ScanTickets(moved) ==
    [k \in DOMAIN tickets |-> tickets[((k - 1 + moved) % Len(tickets)) + 1]]

RECURSIVE Skip(_, _)
\* .offset(n): the rows after the first n.
Skip(rows, n) == IF n = 0 \/ rows = << >> THEN rows ELSE Skip(Tail(rows), n - 1)

RECURSIVE Take(_, _)
\* .limit(n): the first n rows.
Take(rows, n) ==
    IF n = 0 \/ rows = << >> THEN << >> ELSE <<Head(rows)>> \o Take(Tail(rows), n - 1)

getTickets(query, scanned) ==
    LET matching == SelectSeq(scanned, LAMBDA row : whereClause(query, row))
    IN  Take(Skip(matching, offset(query)), limit(query))

GetTickets(query) ==
    /\ now' = now + 1
    /\ \E moved \in 0 .. MaxMoved :
           /\ moved <= Len(tickets)
           /\ call' = [op |-> "getTickets", input |-> query, result |-> "ok",
                       ret |-> Some(getTickets(query, ScanTickets(moved)))]
    /\ UNCHANGED <<users, tickets, comments, everResolved, discussionVars>>

\* ------------------------------------------------- the password hashes
\* A string is the sequence of its parts.  The digests are taken as the
\* hashing primitives give them: a digest is determined by what was hashed
\* and differs from every other digest.
Passwords == {"pw1", "pw2"}
Salts == { <<"s1">> }

\* pbkdf2Sync(plaintext, salt, 10000, 64, 'sha256').toString('hex')
pbkdf2Sync(plaintext, salt) == <<"pbkdf2", plaintext>> \o salt

\* The hash the login tests store: `${salt}:${hash}`.
hashPassword(password, salt) == salt \o <<":">> \o pbkdf2Sync(password, salt)

\* bcrypt.hash(password, saltRounds): a string of the bcrypt alphabet, which
\* has no colon.
bcryptHash(password) == <<"$2b$12$", password>>

RECURSIVE split(_)
\* hash.split(':')
split(s) ==
    IF \A k \in DOMAIN s : s[k] # ":" THEN <<s>>
    ELSE LET at == CHOOSE k \in DOMAIN s :
                       s[k] = ":" /\ \A j \in 1 .. (k - 1) : s[j] # ":"
         IN  <<SubSeq(s, 1, at - 1)>> \o split(SubSeq(s, at + 1, Len(s)))

verifyPassword(plaintext, hash) ==
    LET parts == split(hash) IN
    IF Len(parts) < 2 \/ parts[1] = << >> \/ parts[2] = << >> THEN FALSE
    ELSE pbkdf2Sync(plaintext, parts[1]) = parts[2]

\* --------------------------------------------------------------- createUser
Emails == {"a@x", "b@x"}

CreateUserInputs ==
    [name : {"n"}, email : Emails, password : Passwords, role : {"customer", "agent"}]

\* The row the insert produces; the email column is unique.
createUserRow(input, id, time) ==
    [id |-> id,
     name |-> input.name,
     email |-> input.email,
     password_hash |-> bcryptHash(input.password),
     role |-> input.role,
     created_at |-> time,
     updated_at |-> time]

createUser(input) ==
    /\ now' = now + 1
    /\ LET row == createUserRow(input, Len(users) + 1, now') IN
       IF \E u \in DOMAIN users : users[u].email = input.email
       THEN /\ UNCHANGED users
            /\ call' = [op |-> "createUser", input |-> input,
                        result |-> "duplicate key value", ret |-> NULL]
       ELSE /\ users' = Append(users, row)
            /\ call' = [op |-> "createUser", input |-> input,
                        result |-> "ok", ret |-> Some(row)]
    /\ UNCHANGED <<tickets, comments, everResolved, discussionVars>>

\* ----------------------------------------------------------------- getUsers
\* A query names any of role, limit and offset; the query without keys
\* stands for the omitted query as well.
GetUsersInputs ==
    LET roles == { << >> } \cup { ("role" :> r) : r \in {"customer", "admin"} }
        limits == { << >>, ("limit" :> 1) }
        offsets == { << >>, ("offset" :> 1) }
    IN  { r @@ l @@ o : r \in roles, l \in limits, o \in offsets }

\* db.select({id, name, email, role, created_at, updated_at}).from(usersTable)
baseSelect(table) ==
    [k \in DOMAIN table |->
        [c \in {"id", "name", "email", "role", "created_at", "updated_at"} |-> table[k][c]]]

\* The users of `table` the query selects, each with an empty password_hash
\* put in place of the column that was not read.
getUsers(table, query) ==
    LET selected == IF Has(query, "role")
                    THEN SelectSeq(baseSelect(table), LAMBDA user : user.role = query.role)
                    ELSE baseSelect(table)
        results == Take(Skip(selected, offset(query)), limit(query))
    IN  [k \in DOMAIN results |-> [password_hash |-> << >>] @@ results[k]]

GetUsers(query) ==
    /\ now' = now + 1
    /\ call' = [op |-> "getUsers", input |-> query, result |-> "ok",
                ret |-> Some(getUsers(users, query))]
    /\ UNCHANGED <<users, tickets, comments, everResolved, discussionVars>>

\* ---------------------------------------------------------------- loginUser
LoginInputs == [email : Emails \cup {"c@x"}, password : Passwords]

\* What loginUser returns over `table`: null (NULL here), or the user
\* without the password_hash field.
loginUser(table, input) ==
    LET found == SelectSeq(table, LAMBDA user : user.email = input.email) IN
    IF Len(found) = 0 THEN NULL
    ELSE LET user == found[1] IN
         IF ~verifyPassword(input.password, user.password_hash) THEN NULL
         ELSE Some([c \in (DOMAIN user) \ {"password_hash"} |-> user[c]])

LoginUser(input) ==
    /\ now' = now + 1
    /\ call' = [op |-> "loginUser", input |-> input, result |-> "ok",
                ret |-> loginUser(users, input)]
    /\ UNCHANGED <<users, tickets, comments, everResolved, discussionVars>>

\* --------------------------------------------------------- getTicketStats
\* No agentId, or the id of any user or of none.
GetTicketStatsInputs == { << >> } \cup { ("agentId" :> u) : u \in UserIds }

\* Variant: the agent's filter lets the unassigned tickets through.
selectStatsTickets_WithUnassigned(input) ==
    IF "agentId" \in DOMAIN input
    THEN SelectSeq(tickets, LAMBDA t : t.assigned_agent_id \in {<<input.agentId>>, << >>})
    ELSE tickets

\* The tickets the statistics are taken over: those assigned to agentId if
\* one is given (a null assigned_agent_id equals no id), all of them if not.
selectStatsTickets(input) ==
    IF Has(input, "agentId")
    THEN SelectSeq(tickets, LAMBDA t : t.assigned_agent_id = Some(input.agentId))
    ELSE tickets

\* Variant: a key that is counted again starts again at one.
increment_Restarts(record, key) ==
    [k \in (DOMAIN record) \cup {key} |-> IF k = key THEN 1 ELSE record[k]]

\* record[key] = (record[key] || 0) + 1
increment(record, key) ==
    IF key \in DOMAIN record THEN [record EXCEPT ![key] = @ + 1]
    ELSE record @@ (key :> 1)

\* The counters before the loop.
initialStats(selected) ==
    [total |-> Len(selected), open |-> 0, in_progress |-> 0, on_hold |-> 0,
     resolved |-> 0, closed |-> 0, by_category |-> << >>, by_priority |-> << >>]

\* One turn of the loop: the ticket's status, category and priority.
countTicket(stats, ticket) ==
    [stats EXCEPT ![ticket.status] = @ + 1,
                  !.by_category = increment(@, ticket.category),
                  !.by_priority = increment(@, ticket.priority)]

RECURSIVE countTickets(_, _)
\* for (const ticket of tickets) { ... }
countTickets(stats, rest) ==
    IF rest = << >> THEN stats
    ELSE countTickets(countTicket(stats, Head(rest)), Tail(rest))

getTicketStats(input) ==
    LET selected == selectStatsTickets(input)
    IN  countTickets(initialStats(selected), selected)

GetTicketStats(input) ==
    /\ now' = now + 1
    /\ call' = [op |-> "getTicketStats", input |-> input, result |-> "ok",
                ret |-> Some(getTicketStats(input))]
    /\ UNCHANGED <<users, tickets, comments, everResolved, discussionVars>>

\* The outcome held in `call` goes to the caller; the next call can start.
Return ==
    /\ call # Idle
    /\ pc = "idle"
    /\ call' = Idle
    /\ UNCHANGED <<users, tickets, comments, now, everResolved, discussionVars>>

\* ------------------------------------------------------- the state's shape
\* The clock runs furthest where the statistics are taken.
Timestamps == 0 .. (2 * (MaxStatTickets + MaxListed) + MaxTime)
Nullable(S) == {NULL} \cup {Some(v) : v \in S}

\* Ticket ids go up to the seeded tickets plus one more per tick, or to
\* the longest table that is listed.
TicketRows ==
    [id : 1 .. (MaxTime + MaxListed),
     subject : {"s1", "s2"},
     description : {"d1", "d2"},
     category : {"technical_support", "rfo"},
     priority : {"medium", "urgent"},
     status : ticketStatusEnum,
     customer_id : Nat,
     assigned_agent_id : Nullable(UserIds),
     rfo_details : Nullable(RfoDetails),
     created_at : Timestamps,
     updated_at : Timestamps,
     resolved_at : Nullable(Timestamps)]

CommentRows ==
    [id : CommentIds, ticket_id : TicketIds, user_id : UserIds,
     content : Contents \cup {"c2"}, is_internal : BOOLEAN, created_at : Timestamps]

AttachmentRows ==
    [id : AttachmentIds, ticket_id : TicketIds, filename : {"a.txt"},
     file_path : FilePaths, file_size : {1}, mime_type : {"text/plain"},
     uploaded_by : UserIds, created_at : Timestamps]

TypeOK ==
    /\ \A u \in DOMAIN users : users[u].id = u /\ users[u].role \in userRoleEnum
    /\ \A i \in DOMAIN tickets : tickets[i] \in TicketRows /\ tickets[i].id = i
    /\ \A i \in DOMAIN comments : comments[i] \in CommentRows /\ comments[i].id = i
    /\ now \in Timestamps
    /\ call.op \in {"none", "createTicket", "updateTicket", "assignTicket", "createComment",
                    "updateComment", "getTicketComments", "createAttachment",
                    "deleteAttachment", "getTicketStats", "getTicketAttachments",
                    "getTickets", "createUser", "getUsers", "loginUser"}
    /\ everResolved \subseteq DOMAIN tickets
    /\ \A i \in DOMAIN attachments :
           attachments[i] # << >> => attachments[i][1] \in AttachmentRows /\ attachments[i][1].id = i
    /\ files \subseteq StoredFiles
    /\ pc \in {"idle", "delete", "unlink"}
    /\ (pc = "idle") <=> (attachment = NULL)
    /\ unlinked \subseteq DOMAIN attachments
    /\ toggled \subseteq DOMAIN comments
    /\ \A p \in Procs :
           /\ procs[p].op \in {"none", "assignTicket", "updateTicket", "createComment",
                               "deleteAttachment"}
           /\ procs[p].pc \in {"idle", "write", "delete", "unlink", "done"}
           /\ (procs[p].pc = "idle") <=> (procs[p] = IdleProc)

\* ------------------------------------------------------ the specification
Init ==
    /\ users = SeedUsers
    /\ tickets = << >>
    /\ comments = << >>
    /\ now = 0
    /\ call = Idle
    /\ everResolved = {}
    /\ attachments = << >>
    /\ files = {}
    /\ pc = "idle"
    /\ attachment = NULL
    /\ unlinked = {}
    /\ toggled = {}
    /\ procs = IdleProcs

\* A call starts when the previous one has returned and the clock has a
\* tick left.
Ready == call = Idle /\ now < MaxTime

CreateTicketStep ==
    Ready /\ \E input \in CreateTicketInputs : createTicket(input)
UpdateTicketStep ==
    Ready /\ \E input \in UpdateTicketInputs :
                 KnownOrNext(input.id) /\ updateTicket(input)
AssignTicketStep ==
    Ready /\ \E input \in AssignTicketInputs :
                 KnownOrNext(input.ticketId) /\ assignTicket(input)
CreateCommentStep ==
    Ready /\ \E input \in CreateCommentInputs :
                 KnownOrNext(input.ticket_id) /\ createComment(input)

Next ==
    \/ CreateTicketStep
    \/ UpdateTicketStep
    \/ AssignTicketStep
    \/ CreateCommentStep
    \/ Return

Spec == Init /\ [][Next]_vars

\* ------------------------------------- the comment and attachment calls
\* The store the discussion starts from: the one two createTicket calls of
\* the customer leave, the second ticket with outage details.
SeedTickets ==
    LET first == [subject |-> "s1", description |-> "d1",
                  category |-> "technical_support", priority |-> "medium",
                  customer_id |-> 1]
        second == [subject |-> "s2", description |-> "d2", category |-> "rfo",
                   priority |-> "urgent", customer_id |-> 1,
                   rfo_details |-> Some([outage_type |-> "planned"])]
    IN  <<createTicketRow(first, 1, 1), createTicketRow(second, 2, 2)>>

\* Who writes the comments and uploads the files: the customer, an agent,
\* and a user that does not exist.
Authors == {1, 2, MissingUser}

DiscussionInit ==
    /\ users = SeedUsers
    /\ tickets = SeedTickets
    /\ comments = << >>
    /\ now = Len(SeedTickets)
    /\ call = Idle
    /\ everResolved = {}
    /\ attachments = << >>
    /\ files \in SUBSET StoredFiles
    /\ pc = "idle"
    /\ attachment = NULL
    /\ unlinked = {}
    /\ toggled = {}
    /\ procs = IdleProcs

DiscussionReady == call = Idle /\ now < Len(SeedTickets) + MaxTime

AddCommentStep ==
    DiscussionReady /\ \E input \in CreateCommentInputs :
        /\ KnownOrNext(input.ticket_id)
        /\ input.user_id \in Authors
        /\ createComment(input)
UpdateCommentStep ==
    DiscussionReady /\ \E input \in UpdateCommentInputs :
        KnownOrNextComment(input.id) /\ updateComment(input)
GetTicketCommentsStep ==
    DiscussionReady /\ \E input \in GetTicketCommentsInputs :
        KnownOrNext(input.ticketId) /\ GetTicketComments(input)
CreateAttachmentStep ==
    DiscussionReady /\ \E input \in CreateAttachmentInputs :
        /\ KnownOrNext(input.ticket_id)
        /\ input.uploaded_by \in Authors
        /\ createAttachment(input)
DeleteAttachmentStep ==
    DiscussionReady /\ \E input \in DeleteAttachmentInputs :
        KnownOrNextAttachment(input.attachmentId) /\ deleteAttachmentSelect(input)
GetTicketAttachmentsStep ==
    DiscussionReady /\ \E input \in GetTicketAttachmentsInputs :
        KnownOrNext(input.ticketId) /\ getTicketAttachments(input)

DiscussionNext ==
    \/ AddCommentStep
    \/ UpdateCommentStep
    \/ GetTicketCommentsStep
    \/ CreateAttachmentStep
    \/ DeleteAttachmentStep
    \/ GetTicketAttachmentsStep
    \/ deleteAttachmentDelete
    \/ deleteAttachmentUnlink
    \/ Return

DiscussionSpec == DiscussionInit /\ [][DiscussionNext]_vars

\* -------------------------------------------------- the statistics query
\* What became of a ticket after the customer created it: its content, the
\* status it was given and the agent it was given.
TicketHistories ==
    [content : TicketContents, status : ticketStatusEnum,
     agent : {NULL} \cup { Some(u) : u \in { v \in DOMAIN SeedUsers :
                                                SeedUsers[v].role = "agent" } }]

\* The row of ticket i of n: createTicket's row at time i and, unless the
\* ticket is still open and unassigned, one updateTicket at time n + i that
\* supplied the status and the agent.
StatTicket(h, i, n) ==
    LET created == createTicketRow(h.content @@ [customer_id |-> 1], i, i)
        input == ("id" :> i)
                 @@ (IF h.status # "open" THEN ("status" :> h.status) ELSE << >>)
                 @@ (IF h.agent # NULL THEN ("assigned_agent_id" :> h.agent) ELSE << >>)
    IN  IF DOMAIN input = {"id"} THEN created
        ELSE SetColumns(created, updateValues(input, n + i))

\* The ticket table of the tickets with the histories hs.
StatTable(hs) == [i \in DOMAIN hs |-> StatTicket(hs[i], i, Len(hs))]

StatsInit ==
    /\ users = SeedUsers
    /\ \E n \in 0 .. MaxStatTickets :
           \E hs \in [1 .. n -> TicketHistories] : tickets = StatTable(hs)
    /\ comments = << >>
    /\ now = 2 * Len(tickets)
    /\ call = Idle
    /\ everResolved = { i \in DOMAIN tickets : tickets[i].resolved_at # NULL }
    /\ attachments = << >>
    /\ files = {}
    /\ pc = "idle"
    /\ attachment = NULL
    /\ unlinked = {}
    /\ toggled = {}
    /\ procs = IdleProcs

StatsReady == call = Idle /\ now < 2 * Len(tickets) + MaxTime

GetTicketStatsStep ==
    StatsReady /\ \E input \in GetTicketStatsInputs : GetTicketStats(input)

StatsNext ==
    \/ GetTicketStatsStep
    \/ Return

StatsSpec == StatsInit /\ [][StatsNext]_vars

\* ------------------------------------------- all the writing calls at once
\* The seven calls that write, one after the other on the seeded store,
\* with the inputs that decide whether and what each one writes.
DeskInit == DiscussionInit

DeskReady == DiscussionReady

DeskCreateTicketStep ==
    DeskReady /\ \E input \in CreateTicketInputs :
        /\ input.customer_id \in {1, MissingUser}
        /\ input.category = "rfo"
        /\ Has(input, "rfo_details") /\ input.rfo_details # NULL
        /\ createTicket(input)
DeskUpdateTicketStep ==
    DeskReady /\ \E input \in UpdateTicketInputs :
        /\ KnownOrNext(input.id)
        /\ DOMAIN input \subseteq {"id", "status", "assigned_agent_id"}
        /\ Has(input, "status") => input.status \in {"resolved", "closed"}
        /\ Has(input, "assigned_agent_id") => input.assigned_agent_id \in {Some(2), Some(1)}
        /\ updateTicket(input)
DeskAssignTicketStep ==
    DeskReady /\ \E input \in AssignTicketInputs :
        /\ KnownOrNext(input.ticketId)
        /\ input.agentId \in {1, 2}
        /\ assignTicket(input)
DeskCreateCommentStep ==
    DeskReady /\ \E input \in CreateCommentInputs :
        /\ KnownOrNext(input.ticket_id)
        /\ input.user_id \in {2, MissingUser}
        /\ input.is_internal = FALSE
        /\ createComment(input)
DeskUpdateCommentStep ==
    DeskReady /\ \E input \in UpdateCommentInputs :
        /\ KnownOrNextComment(input.id)
        /\ Has(input, "is_internal") => input.is_internal
        /\ updateComment(input)
DeskCreateAttachmentStep ==
    DeskReady /\ \E input \in CreateAttachmentInputs :
        /\ KnownOrNext(input.ticket_id)
        /\ input.uploaded_by \in {1, MissingUser}
        /\ input.file_path # << >>
        /\ createAttachment(input)
DeskDeleteAttachmentStep ==
    DeskReady /\ \E input \in DeleteAttachmentInputs :
        KnownOrNextAttachment(input.attachmentId) /\ deleteAttachmentSelect(input)

DeskNext ==
    \/ DeskCreateTicketStep
    \/ DeskUpdateTicketStep
    \/ DeskAssignTicketStep
    \/ DeskCreateCommentStep
    \/ DeskUpdateCommentStep
    \/ DeskCreateAttachmentStep
    \/ DeskDeleteAttachmentStep
    \/ deleteAttachmentDelete
    \/ deleteAttachmentUnlink
    \/ Return

DeskSpec == DeskInit /\ [][DeskNext]_vars

\* ------------------------------------------------------ the ticket listing
\* The histories of the listed tickets: an untouched one, a resolved outage
\* report of one agent and an open outage report of the other agent.
ListedHistories ==
    { h \in TicketHistories :
        \/ h.content.category = "technical_support" /\ h.status = "open" /\ h.agent = NULL
        \/ h.content.category = "rfo" /\ h.status = "resolved" /\ h.agent = Some(2)
        \/ h.content.category = "rfo" /\ h.status = "open" /\ h.agent = Some(4) }

\* A table of n tickets whose histories alternate between two.
ListedTable(n, pair) == StatTable([i \in 1 .. n |-> pair[((i - 1) % 2) + 1]])

ListInit ==
    /\ users = SeedUsers
    /\ \E n \in 0 .. MaxListed :
           \E pair \in [1 .. 2 -> ListedHistories] : tickets = ListedTable(n, pair)
    /\ comments = << >>
    /\ now = 2 * Len(tickets)
    /\ call = Idle
    /\ everResolved = { i \in DOMAIN tickets : tickets[i].resolved_at # NULL }
    /\ attachments = << >>
    /\ files = {}
    /\ pc = "idle"
    /\ attachment = NULL
    /\ unlinked = {}
    /\ toggled = {}
    /\ procs = IdleProcs

ListReady == call = Idle /\ now < 2 * Len(tickets) + MaxTime

GetTicketsStep ==
    ListReady /\ \E query \in GetTicketsInputs : GetTickets(query)

ListNext ==
    \/ GetTicketsStep
    \/ Return

ListSpec == ListInit /\ [][ListNext]_vars

\* ------------------------------------------------------------ the accounts
\* The hashes of the users the tests insert directly: the hash of a
\* password in the form loginUser reads, and a malformed one.
StoredHashes == { hashPassword("pw1", s) : s \in Salts } \cup { <<"invalid-hash-format">> }

\* The table of the users inserted directly with the hashes hs.
AccountTable(hs) ==
    [i \in DOMAIN hs |->
        [id |-> i, name |-> "n", email |-> IF i = 1 THEN "a@x" ELSE "b@x",
         password_hash |-> hs[i], role |-> IF i = 1 THEN "customer" ELSE "admin",
         created_at |-> 0, updated_at |-> 0]]

AccountInit ==
    /\ \E n \in 0 .. 2 : \E hs \in [1 .. n -> StoredHashes] : users = AccountTable(hs)
    /\ tickets = << >>
    /\ comments = << >>
    /\ now = 0
    /\ call = Idle
    /\ everResolved = {}
    /\ attachments = << >>
    /\ files = {}
    /\ pc = "idle"
    /\ attachment = NULL
    /\ unlinked = {}
    /\ toggled = {}
    /\ procs = IdleProcs

CreateUserStep == Ready /\ \E input \in CreateUserInputs : createUser(input)
GetUsersStep == Ready /\ \E query \in GetUsersInputs : GetUsers(query)
LoginUserStep == Ready /\ \E input \in LoginInputs : LoginUser(input)

AccountNext ==
    \/ CreateUserStep
    \/ GetUsersStep
    \/ LoginUserStep
    \/ Return

AccountSpec == AccountInit /\ [][AccountNext]_vars

\* ------------------------------------------------- two requests at once
\* Each handler in the steps of its code.  The reads of a handler that
\* come before its first write are one step: the rows they read are never
\* deleted, and what they keep for later is in `local`.  A write is one
\* step.  A request that has finished holds its outcome until Finish.
Begins(p) ==
    /\ procs[p].pc = "idle"
    /\ call = Idle
    /\ now < Len(SeedTickets) + MaxTime

Goes(p, op, input, pcNext, local) ==
    procs' = [procs EXCEPT ![p] = [op |-> op, pc |-> pcNext, input |-> input,
                                   local |-> local, result |-> "pending", ret |-> NULL]]

Ends(p, op, input, result, ret) ==
    procs' = [procs EXCEPT ![p] = [op |-> op, pc |-> "done", input |-> input,
                                   local |-> << >>, result |-> result, ret |-> ret]]

\* assignTicket up to `const currentTicket = existingTicket[0]`.
assignTicketRead(p, input) ==
    /\ Begins(p)
    /\ now' = now + 1
    /\ LET err == assignTicketCheck(input) IN
       IF err # "ok"
       THEN Ends(p, "assignTicket", input, err, NULL)
       ELSE Goes(p, "assignTicket", input, "write", SelectTicket(input.ticketId)[1])
    /\ UNCHANGED <<users, tickets, comments, call, everResolved, attachments, files,
                   pc, attachment, unlinked, toggled>>

\* assignTicket's update, with the status computed from the row it read.
assignTicketWrite(p) ==
    /\ procs[p].op = "assignTicket" /\ procs[p].pc = "write"
    /\ LET input == procs[p].input
           currentTicket == procs[p].local
       IN  /\ tickets' = UpdateTicketRow(input.ticketId,
                                         assignValues(input, currentTicket, now))
           /\ Ends(p, "assignTicket", input, "ok", Some(tickets'[input.ticketId]))
    /\ UNCHANGED <<users, comments, now, call, everResolved, attachments, files,
                   pc, attachment, unlinked, toggled>>

\* updateTicket up to the update: the checks, and the updateValues object
\* with the times `new Date()` gave while it was built.
updateTicketRead(p, input) ==
    /\ Begins(p)
    /\ now' = now + 1
    /\ LET err == updateTicketCheck(input) IN
       IF err # "ok"
       THEN Ends(p, "updateTicket", input, err, NULL)
       ELSE Goes(p, "updateTicket", input, "write", updateValues(input, now'))
    /\ UNCHANGED <<users, tickets, comments, call, everResolved, attachments, files,
                   pc, attachment, unlinked, toggled>>

updateTicketWrite(p) ==
    /\ procs[p].op = "updateTicket" /\ procs[p].pc = "write"
    /\ LET input == procs[p].input IN
       /\ tickets' = UpdateTicketRow(input.id, procs[p].local)
       /\ everResolved' = IF Has(input, "status") /\ input.status = "resolved"
                          THEN everResolved \cup {input.id}
                          ELSE everResolved
       /\ Ends(p, "updateTicket", input, "ok", Some(tickets'[input.id]))
    /\ UNCHANGED <<users, comments, now, call, attachments, files,
                   pc, attachment, unlinked, toggled>>

\* createComment up to and with the insert of the comment.
createCommentInsert(p, input) ==
    /\ Begins(p)
    /\ now' = now + 1
    /\ LET err == createCommentCheck(input)
           row == createCommentRow(input, Len(comments) + 1, now')
       IN  IF err # "ok"
           THEN /\ UNCHANGED comments
                /\ Ends(p, "createComment", input, err, NULL)
           ELSE /\ comments' = Append(comments, row)
                /\ Goes(p, "createComment", input, "write", row)
    /\ UNCHANGED <<users, tickets, call, everResolved, attachments, files,
                   pc, attachment, unlinked, toggled>>

\* createComment's update of the ticket's updated_at.
createCommentTouch(p) ==
    /\ procs[p].op = "createComment" /\ procs[p].pc = "write"
    /\ tickets' = UpdateTicketRow(procs[p].input.ticket_id, [updated_at |-> now])
    /\ Ends(p, "createComment", procs[p].input, "ok", Some(procs[p].local))
    /\ UNCHANGED <<users, comments, now, call, everResolved, attachments, files,
                   pc, attachment, unlinked, toggled>>

\* The outcome goes to the caller; the request can run another handler.
Finish(p) ==
    /\ procs[p].pc = "done"
    /\ procs' = [procs EXCEPT ![p] = IdleProc]
    /\ UNCHANGED <<users, tickets, comments, now, call, everResolved, attachments,
                   files, pc, attachment, unlinked, toggled>>

\* The two requests work on the first of the seeded tickets.
RaceInit == DiscussionInit

RaceNext ==
    \E p \in Procs :
        \/ \E input \in AssignTicketInputs :
               /\ input.ticketId = 1
               /\ input.agentId \in {1, 2}
               /\ assignTicketRead(p, input)
        \/ assignTicketWrite(p)
        \/ \E input \in UpdateTicketInputs :
               /\ DOMAIN input = {"id", "status"}
               /\ input.id = 1
               /\ updateTicketRead(p, input)
        \/ updateTicketWrite(p)
        \/ \E input \in CreateCommentInputs :
               /\ input.ticket_id = 1
               /\ input.user_id = 2
               /\ ~input.is_internal
               /\ createCommentInsert(p, input)
        \/ createCommentTouch(p)
        \/ Finish(p)

RaceSpec == RaceInit /\ [][RaceNext]_vars

\* -------------------------------------------- two deleteAttachment at once
\* Variant: the delete returns the row the lookup had found.
deleteResult_AsSelected(selected, id) == <<selected>>

\* db.delete(attachmentsTable).where(eq(id)).returning(): the rows that
\* are in the table when the delete runs.
deleteResult(selected, id) == SelectAttachment(id)

\* deleteAttachment's lookup.
deleteRaceSelect(p, input) ==
    /\ Begins(p)
    /\ now' = now + 1
    /\ LET found == SelectAttachment(input.attachmentId) IN
       IF Len(found) = 0
       THEN Ends(p, "deleteAttachment", input, "ok", Some(FALSE))
       ELSE Goes(p, "deleteAttachment", input, "delete", found[1])
    /\ UNCHANGED <<users, tickets, comments, call, everResolved, attachments, files,
                   pc, attachment, unlinked, toggled>>

\* The row's deletion: nothing deleted, and the call returns false.
deleteRaceDelete(p) ==
    /\ procs[p].op = "deleteAttachment" /\ procs[p].pc = "delete"
    /\ LET input == procs[p].input
           deleted == deleteResult(procs[p].local, input.attachmentId)
       IN  /\ attachments' = DeleteAttachmentRow(input.attachmentId)
           /\ IF Len(deleted) = 0
              THEN Ends(p, "deleteAttachment", input, "ok", Some(FALSE))
              ELSE Goes(p, "deleteAttachment", input, "unlink", procs[p].local)
    /\ UNCHANGED <<users, tickets, comments, now, call, everResolved, files,
                   pc, attachment, unlinked, toggled>>

\* The file's removal, whose failure is caught and logged.
deleteRaceUnlink(p) ==
    /\ procs[p].op = "deleteAttachment" /\ procs[p].pc = "unlink"
    /\ LET row == procs[p].local
           filePath == resolve(row.file_path)
       IN  IF hasFilePath(row) /\ filePath \in files
           THEN /\ files' = files \ {filePath}
                /\ unlinked' = unlinked \cup {row.id}
           ELSE UNCHANGED <<files, unlinked>>
    /\ Ends(p, "deleteAttachment", procs[p].input, "ok", Some(TRUE))
    /\ UNCHANGED <<users, tickets, comments, now, call, everResolved, attachments,
                   pc, attachment, toggled>>

\* The store holds one attachment of the first ticket, uploaded by the
\* customer, with or without its file on the disk.
DeleteRaceInit ==
    /\ users = SeedUsers
    /\ tickets = SeedTickets
    /\ comments = << >>
    /\ now = Len(SeedTickets) + 1
    /\ call = Idle
    /\ everResolved = {}
    /\ \E input \in CreateAttachmentInputs :
           /\ input.ticket_id = 1
           /\ input.uploaded_by = 1
           /\ attachments = <<Some(createAttachmentRow(input, 1, now))>>
    /\ files \in SUBSET StoredFiles
    /\ pc = "idle"
    /\ attachment = NULL
    /\ unlinked = {}
    /\ toggled = {}
    /\ procs = IdleProcs

\* Each request makes one call.
DeleteRaceNext ==
    \E p \in Procs :
        \/ \E input \in DeleteAttachmentInputs :
               KnownOrNextAttachment(input.attachmentId) /\ deleteRaceSelect(p, input)
        \/ deleteRaceDelete(p)
        \/ deleteRaceUnlink(p)

DeleteRaceSpec == DeleteRaceInit /\ [][DeleteRaceNext]_vars

\* ================================================================ claims
\* Helpers of the claims.  They read the store directly, not through the
\* handlers' queries.
IsUser(u) == u \in DOMAIN users
HasRole(u, r) == IsUser(u) /\ users[u].role = r
IsTicket(i) == i \in DOMAIN tickets
IsComment(i) == i \in DOMAIN comments
IsAttachment(i) == i \in DOMAIN attachments /\ attachments[i] # << >>

\* The error taxonomy of the interface, by the message the handler throws.
\* The two "... or ..." messages are thrown both for a missing user and for
\* a user of the wrong role: they are neither kind.
ErrorKind(result) ==
    CASE result \in {"Customer not found", "Ticket not found", "User not found",
                      "Comment not found"}
             -> "NotFoundError"
      [] result = "User is not a customer" -> "InvalidRoleError"
      [] result \in {"User is not an agent or does not exist",
                     "Agent not found or is not an agent"}
             -> "NotFoundOrInvalidRole"
      [] OTHER -> "none"

\* The step that runs a call of `op`.
Calls(op) == call = Idle /\ call'.op = op
Succeeded(op) == call.op = op /\ call.result = "ok"
Resolves(input) == "status" \in DOMAIN input /\ input.status = "resolved"

\* ---- C1
\* C1: every ticket a successful createTicket returns is the row it stored,
\* and has status open, no assigned agent and no resolution time, whatever
\* the input.
C1_NewTicketDefaults ==
    Succeeded("createTicket") =>
        LET t == call.ret[1] IN
        /\ t.status = "open"
        /\ t.assigned_agent_id = NULL
        /\ t.resolved_at = NULL
        /\ IsTicket(t.id)
        /\ tickets[t.id] = t

\* A second ticket was just created from an input carrying outage details.
C1_Witness ==
    /\ Succeeded("createTicket")
    /\ "rfo_details" \in DOMAIN call.input
    /\ call.input.rfo_details # NULL
    /\ Len(tickets) = 2

\* ---- C2
\* C2: assignTicket on an existing ticket with a valid agent succeeds and
\* sets assigned_agent_id to that agent; a ticket that was open becomes
\* in_progress, a ticket in any other status keeps its status.
C2_AssignStatus ==
    [][ (/\ Calls("assignTicket")
         /\ IsTicket(call'.input.ticketId)
         /\ HasRole(call'.input.agentId, "agent"))
        => LET id == call'.input.ticketId IN
           /\ call'.result = "ok"
           /\ tickets'[id].assigned_agent_id = Some(call'.input.agentId)
           /\ tickets[id].status = "open" => tickets'[id].status = "in_progress"
           /\ tickets[id].status # "open" => tickets'[id].status = tickets[id].status
      ]_vars

\* A ticket on hold was just assigned, and is still on hold.
C2_Witness ==
    /\ Succeeded("assignTicket")
    /\ tickets[call.input.ticketId].status = "on_hold"
    /\ tickets[call.input.ticketId].assigned_agent_id = Some(call.input.agentId)

\* ---- C3
\* C3: a successful updateTicket that supplies status = resolved leaves the
\* ticket with a non-null resolved_at; an updateTicket that does not supply
\* status = resolved leaves every resolved_at as it was.
C3_ResolvedAtOnUpdate ==
    [][ Calls("updateTicket")
        => LET input == call'.input IN
           /\ (Resolves(input) /\ call'.result = "ok")
                  => tickets'[input.id].resolved_at # NULL
           /\ ~Resolves(input)
                  => /\ Len(tickets') = Len(tickets)
                     /\ \A i \in DOMAIN tickets :
                            tickets'[i].resolved_at = tickets[i].resolved_at
      ]_vars

\* A ticket that had been resolved was just given another status.
C3_Witness ==
    /\ Succeeded("updateTicket")
    /\ "status" \in DOMAIN call.input
    /\ call.input.status # "resolved"
    /\ tickets[call.input.id].resolved_at # NULL

\* ---- C4
\* C4: a ticket's resolved_at is non-null exactly when some earlier
\* successful updateTicket on it supplied status = resolved; it is not reset
\* when the status later moves away from resolved.
C4_ResolvedAtIffEverResolved ==
    \A i \in DOMAIN tickets : (tickets[i].resolved_at # NULL) <=> (i \in everResolved)

\* A ticket that is no longer resolved still carries its resolution time.
C4_Witness ==
    \E i \in DOMAIN tickets :
        /\ tickets[i].resolved_at # NULL
        /\ tickets[i].status \notin {"resolved"}
        /\ i \in everResolved

\* ---- C5
\* C5: every ticket with an assigned agent references an existing user
\* whose role is agent.
C5_AssignedAgentIsAgent ==
    \A i \in DOMAIN tickets :
        tickets[i].assigned_agent_id # NULL
            => HasRole(tickets[i].assigned_agent_id[1], "agent")

\* An updateTicket just gave a ticket its agent.
C5_Witness ==
    /\ Succeeded("updateTicket")
    /\ "assigned_agent_id" \in DOMAIN call.input
    /\ call.input.assigned_agent_id # NULL
    /\ tickets[call.input.id].assigned_agent_id = call.input.assigned_agent_id

\* ---- C6
\* C6: createTicket for a customer_id that matches no user fails with
\* NotFoundError, and for one that matches an agent or an admin with
\* InvalidRoleError; either way the store is left as it was.
C6_CreateTicketRejects ==
    [][ Calls("createTicket")
        => LET u == call'.input.customer_id IN
           /\ ~IsUser(u)
                  => /\ ErrorKind(call'.result) = "NotFoundError"
                     /\ tickets' = tickets /\ comments' = comments /\ users' = users
           /\ (HasRole(u, "agent") \/ HasRole(u, "admin"))
                  => /\ ErrorKind(call'.result) = "InvalidRoleError"
                     /\ tickets' = tickets /\ comments' = comments /\ users' = users
      ]_vars

\* A createTicket naming an admin was just rejected, with a ticket in the store.
C6_Witness ==
    /\ call.op = "createTicket"
    /\ call.result = "User is not a customer"
    /\ HasRole(call.input.customer_id, "admin")
    /\ Len(tickets) >= 1

\* ---- C7
\* C7: every ticket's customer_id references an existing user whose role is
\* customer, and no call changes the customer_id of a ticket.
C7_CustomerIsCustomer ==
    [][ /\ \A i \in DOMAIN tickets' :
               /\ tickets'[i].customer_id \in DOMAIN users'
               /\ users'[tickets'[i].customer_id].role = "customer"
        /\ \A i \in DOMAIN tickets :
               /\ i \in DOMAIN tickets'
               /\ tickets'[i].customer_id = tickets[i].customer_id
      ]_vars

\* With two tickets in the store, one was just updated or assigned.
C7_Witness ==
    /\ Succeeded("updateTicket") \/ Succeeded("assignTicket")
    /\ Len(tickets) = 2

\* ---- C8
\* C8: a successful updateTicket sets each supplied field to the supplied
\* value (a supplied null included), keeps each omitted field, refreshes
\* updated_at, touches resolved_at only when status = resolved is supplied,
\* and changes nothing else in the store.
C8_UpdateFrame ==
    [][ (Calls("updateTicket") /\ call'.result = "ok")
        => LET input == call'.input
               old == tickets[input.id]
               new == tickets'[input.id]
           IN  /\ \A f \in UpdateFields :
                      new[f] = IF f \in DOMAIN input THEN input[f] ELSE old[f]
               /\ new.updated_at = now'
               /\ new.updated_at > old.updated_at
               /\ ~Resolves(input) => new.resolved_at = old.resolved_at
               /\ new.id = old.id
               /\ new.customer_id = old.customer_id
               /\ new.created_at = old.created_at
               /\ Len(tickets') = Len(tickets)
               /\ \A i \in DOMAIN tickets : i # input.id => tickets'[i] = tickets[i]
               /\ comments' = comments
               /\ users' = users
      ]_vars

\* An updateTicket that supplied assigned_agent_id = null just succeeded on
\* a ticket that had been touched before.
C8_Witness ==
    /\ Succeeded("updateTicket")
    /\ "assigned_agent_id" \in DOMAIN call.input
    /\ call.input.assigned_agent_id = NULL
    /\ tickets[call.input.id].updated_at > tickets[call.input.id].created_at + 1

C11_UpdateMissingTicket ==
    [][ (Calls("updateTicket") /\ ~IsTicket(call'.input.id))
        => /\ call'.result = "Ticket not found"
           /\ ErrorKind(call'.result) = "NotFoundError"
           /\ tickets' = tickets
           /\ comments' = comments
           /\ users' = users
           /\ attachments' = attachments
           /\ files' = files
      ]_vars

\* An updateTicket naming a ticket that does not exist and, as the agent, a
\* customer was just rejected for the ticket, with a ticket in the store.
C11_Witness ==
    /\ call.op = "updateTicket"
    /\ call.result = "Ticket not found"
    /\ ~IsTicket(call.input.id)
    /\ "assigned_agent_id" \in DOMAIN call.input
    /\ call.input.assigned_agent_id # NULL
    /\ HasRole(call.input.assigned_agent_id[1], "customer")
    /\ Len(tickets) >= 1

\* ---- C12
\* C12: a successful assignTicket changes only assigned_agent_id, status and
\* updated_at of the ticket it names: that ticket's subject, description,
\* category, priority, customer_id, rfo_details, created_at and resolved_at
\* are as before the call, and no other ticket is modified.
C12_AssignFrame ==
    [][ (Calls("assignTicket") /\ call'.result = "ok")
        => LET id == call'.input.ticketId
               old == tickets[id]
               new == tickets'[id]
           IN  /\ \A f \in {"id", "subject", "description", "category", "priority",
                            "customer_id", "rfo_details", "created_at", "resolved_at"} :
                      new[f] = old[f]
               /\ DOMAIN new = DOMAIN old
               /\ Len(tickets') = Len(tickets)
               /\ \A i \in DOMAIN tickets : i # id => tickets'[i] = tickets[i]
      ]_vars

\* A ticket that carries outage details and a resolution time was just
\* assigned.
C12_Witness ==
    /\ Succeeded("assignTicket")
    /\ tickets[call.input.ticketId].resolved_at # NULL
    /\ tickets[call.input.ticketId].rfo_details # NULL
    /\ tickets[call.input.ticketId].updated_at = now

\* ---- C13
\* C13: getTicketComments(ticketId, false) never returns a comment whose
\* current is_internal flag is true; getTicketComments(ticketId, true)
\* returns every comment of that ticket, each once, and none of another
\* ticket, in non-decreasing created_at order.  This holds in every state
\* the createComment and updateComment calls lead to, and of the list a
\* getTicketComments call has just returned.
C13_CommentVisibility ==
    /\ \A t \in TicketIds :
           LET public == getTicketComments(t, FALSE)
               all == getTicketComments(t, TRUE)
               ofTicket == { i \in DOMAIN comments : comments[i].ticket_id = t }
           IN  /\ \A k \in DOMAIN public :
                      /\ IsComment(public[k].id)
                      /\ public[k] = comments[public[k].id]
                      /\ public[k].ticket_id = t
                      /\ comments[public[k].id].is_internal = FALSE
               /\ { all[k] : k \in DOMAIN all } = { comments[i] : i \in ofTicket }
               /\ Len(all) = Cardinality(ofTicket)
               /\ \A j, k \in DOMAIN all :
                      j < k => all[j].created_at <= all[k].created_at
    /\ call.op = "getTicketComments"
           => call.ret = Some(getTicketComments(call.input.ticketId,
                                                call.input.includeInternal))

\* A getTicketComments without the internal comments has just returned a
\* comment that an updateComment had turned from internal to public.
C13_Witness ==
    /\ call.op = "getTicketComments"
    /\ call.input.includeInternal = FALSE
    /\ \E k \in DOMAIN call.ret[1] : call.ret[1][k].id \in toggled

\* ---- C14
\* C14: createComment and createAttachment each fail with NotFoundError
\* when the ticket they name does not exist or the user they name does not
\* exist; then no comment or attachment row is inserted and every ticket,
\* its updated_at included, is as before.
C14_CreateRejects ==
    [][ /\ (/\ Calls("createComment")
            /\ ~IsTicket(call'.input.ticket_id) \/ ~IsUser(call'.input.user_id))
           => /\ ErrorKind(call'.result) = "NotFoundError"
              /\ comments' = comments
              /\ attachments' = attachments
              /\ tickets' = tickets
        /\ (/\ Calls("createAttachment")
            /\ ~IsTicket(call'.input.ticket_id) \/ ~IsUser(call'.input.uploaded_by))
           => /\ ErrorKind(call'.result) = "NotFoundError"
              /\ comments' = comments
              /\ attachments' = attachments
              /\ tickets' = tickets
      ]_vars

\* A createAttachment for an existing ticket by a user that does not exist
\* was just rejected, after a comment had been added to that ticket.
C14_Witness ==
    /\ call.op = "createAttachment"
    /\ call.result = "User not found"
    /\ IsTicket(call.input.ticket_id)
    /\ ~IsUser(call.input.uploaded_by)
    /\ \E i \in DOMAIN comments : comments[i].ticket_id = call.input.ticket_id

\* ---- C15
\* C15: a successful createComment inserts exactly one comment, with the
\* supplied ticket_id, user_id, content and is_internal, and refreshes the
\* parent ticket's updated_at; every other field of that ticket and every
\* other ticket is as before.
C15_CreateCommentFrame ==
    [][ (Calls("createComment") /\ call'.result = "ok")
        => LET input == call'.input
               new == comments'[Len(comments')]
           IN  /\ Len(comments') = Len(comments) + 1
               /\ \A i \in DOMAIN comments : comments'[i] = comments[i]
               /\ new.ticket_id = input.ticket_id
               /\ new.user_id = input.user_id
               /\ new.content = input.content
               /\ new.is_internal = input.is_internal
               /\ call'.ret = Some(new)
               /\ Len(tickets') = Len(tickets)
               /\ tickets'[input.ticket_id].updated_at = now'
               /\ tickets'[input.ticket_id].updated_at > tickets[input.ticket_id].updated_at
               /\ tickets'[input.ticket_id]
                      = [tickets[input.ticket_id] EXCEPT !.updated_at = now']
               /\ \A i \in DOMAIN tickets : i # input.ticket_id => tickets'[i] = tickets[i]
      ]_vars

\* An internal comment was just added to a ticket that had been resolved.
C15_Witness ==
    /\ Succeeded("createComment")
    /\ call.input.is_internal = TRUE
    /\ tickets[call.input.ticket_id].resolved_at # NULL
    /\ tickets[call.input.ticket_id].updated_at = now

\* ---- C16
\* C16: updateComment changes only the supplied fields among content and
\* is_internal; with neither supplied it returns the stored comment and
\* writes nothing; it never changes the comment's id, ticket_id, user_id or
\* created_at; for an id matching no comment it fails with NotFoundError
\* and leaves the store as it was.
C16_UpdateCommentFrame ==
    [][ Calls("updateComment")
        => LET input == call'.input
               id == input.id
           IN  /\ ~IsComment(id)
                      => /\ ErrorKind(call'.result) = "NotFoundError"
                         /\ comments' = comments
                         /\ tickets' = tickets
                         /\ attachments' = attachments
                         /\ users' = users
               /\ IsComment(id)
                      => /\ call'.result = "ok"
                         /\ call'.ret = Some(comments'[id])
                         /\ Len(comments') = Len(comments)
                         /\ \A i \in DOMAIN comments : i # id => comments'[i] = comments[i]
                         /\ \A f \in {"content", "is_internal"} :
                                comments'[id][f] = IF f \in DOMAIN input THEN input[f]
                                                   ELSE comments[id][f]
                         /\ \A f \in {"id", "ticket_id", "user_id", "created_at"} :
                                comments'[id][f] = comments[id][f]
                         /\ tickets' = tickets
                         /\ attachments' = attachments
               /\ (IsComment(id) /\ DOMAIN input = {"id"})
                      => /\ comments' = comments
                         /\ call'.ret = Some(comments[id])
      ]_vars

\* The content of an internal comment was just replaced, is_internal not
\* supplied.
C16_Witness ==
    /\ Succeeded("updateComment")
    /\ DOMAIN call.input = {"id", "content"}
    /\ comments[call.input.id].is_internal = TRUE
    /\ comments[call.input.id].content = call.input.content

\* ---- C17
\* C17: deleteAttachment on an id matching no attachment returns false
\* without throwing and changes nothing; on an existing id it goes on to
\* return true with the row absent, whether the file is removed, the
\* removal fails, the file is missing or the stored path is empty or blank;
\* a deleted id stays absent, so a second call on it returns false.
C17_DeleteAttachment ==
    [][ /\ (Calls("deleteAttachment") /\ ~IsAttachment(call'.input.attachmentId))
           => /\ call'.result = "ok"
              /\ call'.ret = Some(FALSE)
              /\ attachments' = attachments
              /\ files' = files
              /\ tickets' = tickets
              /\ comments' = comments
        /\ (Calls("deleteAttachment") /\ IsAttachment(call'.input.attachmentId))
           => call'.result = "pending"
        /\ (call.op = "deleteAttachment" /\ call.result = "pending"
            /\ call'.result # "pending")
           => /\ call'.result = "ok"
              /\ call'.ret = Some(TRUE)
              /\ call'.input = call.input
              /\ attachments'[call.input.attachmentId] = << >>
        /\ \A i \in DOMAIN attachments :
               ~IsAttachment(i) => (i \in DOMAIN attachments' /\ attachments'[i] = << >>)
      ]_vars

\* A second deleteAttachment of an attachment just returned false; the
\* first had removed the row and the file.
C17_Witness ==
    /\ call.op = "deleteAttachment"
    /\ call.ret = Some(FALSE)
    /\ call.input.attachmentId \in DOMAIN attachments
    /\ call.input.attachmentId \in unlinked

\* ---- C18
\* C18: deleteAttachment deletes the row before it attempts the file's
\* removal, and a failed removal never restores the row: the disk changes
\* only in the removal step, taken when the row is gone; that step leaves
\* the table alone; and no attachment whose file a deleteAttachment has
\* removed has a row.
C18_RowBeforeFile ==
    [][ /\ files' # files
           => /\ pc = "unlink"
              /\ ~IsAttachment(call.input.attachmentId)
              /\ files' = files \ {resolve(attachment[1].file_path)}
        /\ pc = "unlink" => attachments' = attachments
        /\ \A id \in unlinked' : id \in DOMAIN attachments' /\ attachments'[id] = << >>
      ]_vars

\* The removal of a file that is not on the disk is about to fail, the row
\* already deleted.
C18_Witness ==
    /\ pc = "unlink"
    /\ hasFilePath(attachment[1])
    /\ resolve(attachment[1].file_path) \notin files
    /\ ~IsAttachment(call.input.attachmentId)
    /\ call.input.attachmentId \in DOMAIN attachments

\* ---- C19
\* The tickets a getTicketStats input is about, read from the table.
Matching(input) ==
    { i \in DOMAIN tickets :
        "agentId" \in DOMAIN input => tickets[i].assigned_agent_id = Some(input.agentId) }

RECURSIVE SumOf(_)
\* The sum of the values of a mapping.
SumOf(f) ==
    IF DOMAIN f = {} THEN 0
    ELSE LET k == CHOOSE x \in DOMAIN f : TRUE
         IN  f[k] + SumOf([x \in (DOMAIN f) \ {k} |-> f[x]])

\* C19: getTicketStats returns total equal to the number of matching
\* tickets, each of open, in_progress, on_hold, resolved, closed equal to
\* the number of matching tickets in that status, and by_category and
\* by_priority maps whose keys are exactly the categories and priorities of
\* at least one matching ticket, each with the number of those tickets; the
\* five status counts, the by_category values and the by_priority values
\* each sum to total.
C19_StatsCounts ==
    call.op = "getTicketStats"
        => LET stats == call.ret[1]
               matching == Matching(call.input)
           IN  /\ stats.total = Cardinality(matching)
               /\ \A s \in ticketStatusEnum :
                      stats[s] = Cardinality({ i \in matching : tickets[i].status = s })
               /\ DOMAIN stats.by_category = { tickets[i].category : i \in matching }
               /\ \A c \in DOMAIN stats.by_category :
                      stats.by_category[c]
                          = Cardinality({ i \in matching : tickets[i].category = c })
               /\ DOMAIN stats.by_priority = { tickets[i].priority : i \in matching }
               /\ \A p \in DOMAIN stats.by_priority :
                      stats.by_priority[p]
                          = Cardinality({ i \in matching : tickets[i].priority = p })
               /\ stats.open + stats.in_progress + stats.on_hold
                      + stats.resolved + stats.closed = stats.total
               /\ SumOf(stats.by_category) = stats.total
               /\ SumOf(stats.by_priority) = stats.total

\* The statistics of the whole table were just returned: as many tickets
\* as the table can hold, all of one category, one of them resolved and
\* one still open.
C19_Witness ==
    /\ call.op = "getTicketStats"
    /\ DOMAIN call.input = {}
    /\ call.ret[1].total = MaxStatTickets
    /\ \E c \in DOMAIN call.ret[1].by_category :
           call.ret[1].by_category[c] = MaxStatTickets
    /\ call.ret[1].resolved = 1
    /\ call.ret[1].open >= 1

\* ---- C20
\* The statistics of no ticket.
ZeroStats ==
    [total |-> 0, open |-> 0, in_progress |-> 0, on_hold |-> 0, resolved |-> 0,
     closed |-> 0, by_category |-> << >>, by_priority |-> << >>]

\* C20: getTicketStats(agentId) counts exactly the tickets whose
\* assigned_agent_id equals agentId, the unassigned tickets excluded;
\* without an agentId it counts every ticket, the unassigned included; an
\* agentId that matches no user or no ticket yields total 0, all status
\* counts 0 and empty maps, not an error.
C20_StatsAgentFilter ==
    call.op = "getTicketStats"
        => LET stats == call.ret[1]
               input == call.input
               assigned == { i \in DOMAIN tickets :
                               /\ tickets[i].assigned_agent_id # NULL
                               /\ tickets[i].assigned_agent_id[1] = input.agentId }
           IN  /\ call.result = "ok"
               /\ "agentId" \notin DOMAIN input => stats.total = Len(tickets)
               /\ "agentId" \in DOMAIN input
                      => /\ stats.total = Cardinality(assigned)
                         /\ \A s \in ticketStatusEnum :
                                stats[s] = Cardinality({ i \in assigned :
                                                           tickets[i].status = s })
                         /\ (~IsUser(input.agentId) \/ assigned = {}) => stats = ZeroStats

\* The statistics of an agent were just returned: one ticket of a table
\* that also holds an unassigned ticket.
C20_Witness ==
    /\ call.op = "getTicketStats"
    /\ "agentId" \in DOMAIN call.input
    /\ HasRole(call.input.agentId, "agent")
    /\ call.ret[1].total = 1
    /\ \E i \in DOMAIN tickets : tickets[i].assigned_agent_id = NULL

\* ---- C21
\* C21: getTicketAttachments fails with NotFoundError when the ticket does
\* not exist; otherwise it returns exactly the attachments of that ticket,
\* each once, in non-decreasing created_at order (the empty list when there
\* are none).  getTicketComments with a ticket id that matches no ticket
\* returns the empty list and does not fail.
C21_AttachmentListing ==
    /\ (call.op = "getTicketAttachments" /\ ~IsTicket(call.input.ticketId))
           => /\ ErrorKind(call.result) = "NotFoundError"
              /\ call.ret = NULL
    /\ (call.op = "getTicketAttachments" /\ IsTicket(call.input.ticketId))
           => LET ofTicket == { i \in DOMAIN attachments :
                                  /\ IsAttachment(i)
                                  /\ attachments[i][1].ticket_id = call.input.ticketId }
                  list == call.ret[1]
              IN  /\ call.result = "ok"
                  /\ call.ret # NULL
                  /\ { list[k] : k \in DOMAIN list } = { attachments[i][1] : i \in ofTicket }
                  /\ Len(list) = Cardinality(ofTicket)
                  /\ \A j, k \in DOMAIN list :
                         j < k => list[j].created_at <= list[k].created_at
    /\ (call.op = "getTicketComments" /\ ~IsTicket(call.input.ticketId))
           => call.result = "ok" /\ call.ret = Some(<< >>)

\* A getTicketAttachments has just returned two attachments of one ticket
\* that were uploaded at different times.
C21_Witness ==
    /\ call.op = "getTicketAttachments"
    /\ call.result = "ok"
    /\ Len(call.ret[1]) = 2
    /\ call.ret[1][1].created_at < call.ret[1][2].created_at

\* ---- C22
\* The rows of the entity store a step writes: those inserted, those
\* changed and those deleted.
TicketsWritten ==
    { i \in DOMAIN tickets' : i \notin DOMAIN tickets \/ tickets'[i] # tickets[i] }
CommentsWritten ==
    { i \in DOMAIN comments' : i \notin DOMAIN comments \/ comments'[i] # comments[i] }
AttachmentsWritten ==
    { i \in DOMAIN attachments' :
        i \notin DOMAIN attachments \/ attachments'[i] # attachments[i] }
RowsWritten ==
    Cardinality(TicketsWritten) + Cardinality(CommentsWritten)
        + Cardinality(AttachmentsWritten)

\* The writes of a call happen in the step that starts it, except for
\* deleteAttachment, whose row is deleted by the step after the lookup.
WritingStep ==
    \/ call = Idle /\ call'.op # "deleteAttachment"
    \/ pc = "delete"

\* A call that fails its checks writes nothing.
ChecksFirst ==
    /\ users' = users
    /\ ~WritingStep => RowsWritten = 0
    /\ (call = Idle /\ call'.result # "ok") => RowsWritten = 0
    /\ (pc = "delete" /\ call'.ret = Some(FALSE)) => RowsWritten = 0

\* C22 as stated: every one of createTicket, updateTicket, assignTicket,
\* createComment, updateComment, createAttachment and deleteAttachment makes
\* its existence checks first and then at most one write to the entity
\* store per call.
C22_Original ==
    [][ ChecksFirst /\ RowsWritten <= 1 ]_vars

\* C22 amended: every one of the seven calls makes its existence checks
\* first and then at most one write to the entity store, except a
\* successful createComment, which makes two: it inserts the comment and
\* then refreshes updated_at of the comment's ticket.
C22_Amended ==
    [][ /\ ChecksFirst
        /\ IF Calls("createComment") /\ call'.result = "ok"
           THEN /\ CommentsWritten = {Len(comments) + 1}
                /\ TicketsWritten = {call'.input.ticket_id}
                /\ AttachmentsWritten = {}
                /\ \A c \in DOMAIN tickets[call'.input.ticket_id] :
                       c # "updated_at"
                           => tickets'[call'.input.ticket_id][c]
                                  = tickets[call'.input.ticket_id][c]
           ELSE RowsWritten <= 1
      ]_vars

\* A createComment has just succeeded on a ticket that an assignment had
\* written before, after an attachment was uploaded.
C22_Witness ==
    /\ Succeeded("createComment")
    /\ tickets[call.input.ticket_id].assigned_agent_id # NULL
    /\ \E i \in DOMAIN attachments : IsAttachment(i)

\* ---- C23
\* C23: outage details are stored whatever the category.  A successful
\* createTicket stores the rfo_details it was given (null when it was given
\* none), for any category; a successful updateTicket that changes the
\* category and supplies no rfo_details keeps the stored rfo_details.
C23_DetailsAnyCategory ==
    [][ /\ (Calls("createTicket") /\ call'.result = "ok")
            => LET input == call'.input
                   new == tickets'[Len(tickets')]
               IN  /\ Len(tickets') = Len(tickets) + 1
                   /\ new.category = input.category
                   /\ new.rfo_details = IF "rfo_details" \in DOMAIN input
                                        THEN input.rfo_details ELSE NULL
        /\ (/\ Calls("updateTicket") /\ call'.result = "ok"
            /\ "category" \in DOMAIN call'.input
            /\ "rfo_details" \notin DOMAIN call'.input
            /\ call'.input.category # tickets[call'.input.id].category)
            => /\ tickets'[call'.input.id].category = call'.input.category
               /\ tickets'[call'.input.id].rfo_details
                      = tickets[call'.input.id].rfo_details
      ]_vars

\* An updateTicket has just moved a ticket that was created as an outage
\* report with details to another category: the ticket is not of category
\* rfo and has outage details.
C23_Witness ==
    /\ Succeeded("updateTicket")
    /\ DOMAIN call.input = {"id", "category"}
    /\ tickets[call.input.id].category # "rfo"
    /\ tickets[call.input.id].rfo_details # NULL
    /\ tickets[call.input.id].subject = "s2"
    /\ tickets[call.input.id].updated_at = tickets[call.input.id].created_at + 1

\* ---- C24
\* C24: in every state the createComment, updateComment, createAttachment
\* and deleteAttachment calls lead to, every comment references one
\* existing ticket and one existing user, and every attachment references
\* one existing ticket and one existing uploader.
C24_References ==
    /\ \A i \in DOMAIN comments :
           /\ IsTicket(comments[i].ticket_id)
           /\ IsUser(comments[i].user_id)
    /\ \A i \in DOMAIN attachments :
           IsAttachment(i)
               => /\ IsTicket(attachments[i][1].ticket_id)
                  /\ IsUser(attachments[i][1].uploaded_by)

\* An updateComment has just succeeded on the one comment, with an
\* attachment in the store.
C24_Witness ==
    /\ Succeeded("updateComment")
    /\ \E i \in DOMAIN attachments : IsAttachment(i)
    /\ Len(comments) = 1

\* ---- C25
\* The tickets that satisfy every filter the query supplies.
Satisfying(query) ==
    { i \in DOMAIN tickets :
        /\ "customer_id" \in DOMAIN query => tickets[i].customer_id = query.customer_id
        /\ "assigned_agent_id" \in DOMAIN query
               => /\ tickets[i].assigned_agent_id # NULL
                  /\ tickets[i].assigned_agent_id[1] = query.assigned_agent_id
        /\ "status" \in DOMAIN query => tickets[i].status = query.status
        /\ "category" \in DOMAIN query => tickets[i].category = query.category
        /\ "priority" \in DOMAIN query => tickets[i].priority = query.priority }

Matches(password, hash) ==
    \/ hash = bcryptHash(password)
    \/ \E s \in Salts : hash = hashPassword(password, s)

\* The tables that differ from the stored one in the hashes of the users
\* other than `keep`.
OtherHashes(keep) ==
    LET hashes == StoredHashes \cup { bcryptHash(p) : p \in Passwords }
    IN  { [u \in DOMAIN users |-> [users[u] EXCEPT !.password_hash = alt[u]]] :
            alt \in { a \in [DOMAIN users -> hashes] :
                        \A u \in keep : a[u] = users[u].password_hash } }

\* C26: getUsers never discloses a stored password hash: password_hash is
\* the empty string for every user it returns.  loginUser returns null for
\* an unknown email or a password that does not match, and otherwise
\* returns the user without any password_hash field.  The outputs of both
\* are independent of the stored hashes of the users other than the one
\* authenticated.
C26_Claim ==
    /\ call.op = "getUsers"
           => /\ \A k \in DOMAIN call.ret[1] : call.ret[1][k].password_hash = << >>
              /\ \A table \in OtherHashes({}) :
                     Some(getUsers(table, call.input)) = call.ret
    /\ call.op = "loginUser"
           => LET known == { u \in DOMAIN users : users[u].email = call.input.email }
              IN  /\ known = {} => call.ret = NULL
                  /\ \A u \in known :
                         IF Matches(call.input.password, users[u].password_hash)
                         THEN /\ call.ret # NULL
                              /\ "password_hash" \notin DOMAIN call.ret[1]
                              /\ \A c \in DOMAIN call.ret[1] : call.ret[1][c] = users[u][c]
                         ELSE call.ret = NULL
                  /\ \A table \in OtherHashes(known) :
                         loginUser(table, call.input) = call.ret

\* ---- C27
\* The step in which request p's assignTicket writes.
AssignWrites(p) ==
    /\ procs[p].op = "assignTicket"
    /\ procs[p].pc = "write"
    /\ procs'[p].pc = "done"

\* C27: in every interleaving of an assignTicket with an updateTicket on
\* the same ticket, the read and the write of each being separate steps,
\* the only status change assignTicket makes is open to in_progress: when
\* the stored status just before assignTicket's write is not open, the
\* stored status after the write is the same.
C27_Claim ==
    [][ \A p \in Procs :
            AssignWrites(p)
                => LET id == procs[p].input.ticketId IN
                   tickets'[id].status # tickets[id].status
                       => /\ tickets[id].status = "open"
                          /\ tickets'[id].status = "in_progress"
      ]_vars

\* ---- C28
\* C28: under any interleaving of updateTicket, assignTicket and
\* createComment, a ticket whose status is resolved has a resolved_at.
C28_ResolvedHasTime ==
    \A i \in DOMAIN tickets :
        tickets[i].status = "resolved" => tickets[i].resolved_at # NULL

\* The ticket is resolved and has its resolution time, with an assignTicket
\* and an updateTicket that moved the status to closed both just finished:
\* the assignTicket had read the ticket while it was resolved.
C28_Witness ==
    \E p \in Procs :
        /\ procs[p].op = "assignTicket"
        /\ procs[p].pc = "done"
        /\ procs[p].result = "ok"
        /\ tickets[1].status = "resolved"
        /\ tickets[1].resolved_at # NULL
        /\ \E q \in Procs \ {p} :
               /\ procs[q].op = "updateTicket"
               /\ procs[q].pc = "done"
               /\ procs[q].result = "ok"
               /\ procs[q].input.status = "closed"

\* ---- C29
\* The requests that run deleteAttachment on attachment i.
Deleting(i) ==
    { p \in Procs : procs[p].op = "deleteAttachment" /\ procs[p].input.attachmentId = i }

\* C29: of two concurrent deleteAttachment calls on the same existing
\* attachment, the lookup, the row's deletion and the file's removal being
\* separate steps, at most one returns true, the file's removal is attempted
\* by at most one of them, and the other returns false.
C29_OneDeletes ==
    \A i \in DOMAIN attachments :
        LET returned(b) == { p \in Deleting(i) :
                               procs[p].pc = "done" /\ procs[p].ret = Some(b) }
            removing == { p \in Deleting(i) : procs[p].pc = "unlink" }
        IN  /\ Cardinality(returned(TRUE)) <= 1
            /\ Cardinality(removing \cup returned(TRUE)) <= 1
            /\ \A p, q \in Deleting(i) :
                   (p # q /\ procs[p].pc = "done" /\ procs[q].pc = "done")
                       => \/ procs[p].ret = Some(TRUE) /\ procs[q].ret = Some(FALSE)
                          \/ procs[p].ret = Some(FALSE) /\ procs[q].ret = Some(TRUE)

\* Both requests have finished their deleteAttachment of the stored
\* attachment: one returned true and removed the file, the other returned
\* false.
C29_Witness ==
    /\ Deleting(1) = Procs
    /\ \A p \in Procs : procs[p].pc = "done"
    /\ \E p \in Procs : procs[p].ret = Some(TRUE)
    /\ \E p \in Procs : procs[p].ret = Some(FALSE)
    /\ unlinked = {1}
    /\ now = Len(SeedTickets) + 3

====
